---- MODULE Spec2Model ----
(***************************************************************************)
(* Cyrnel Origin sale pipeline: the process-sale webhook handler           *)
(* (generateAIaudit, sendAuditEmail, Firestore write, response) and the    *)
(* get-dashboard aggregation handler, over the shared 'sales' collection.  *)
(*                                                                         *)
(* Each handler is split at its await points: what runs between two awaits *)
(* is one action.  Several intake invocations run concurrently.            *)
(*                                                                         *)
(* Encoding of JavaScript values:                                          *)
(*   - a form body is a function from the keys it carries to their values; *)
(*   - a website value is a sequence of tokens ("https://", "www.", rest), *)
(*     a price value is a sequence of one-character strings;               *)
(*   - the JS value undefined in a string position is the string Undefined;*)
(*   - an amount is a record [nan, cents] (cents = hundredths).            *)
(***************************************************************************)
EXTENDS Integers, Sequences, FiniteSets, TLC

VARIABLES
    ledger,       \* the 'sales' collection: a set of documents [id, data]
    serverClock,  \* the store's clock, source of FieldValue.serverTimestamp()
    pc,           \* pc[i]: where intake invocation i stands
    event,        \* event[i]: the request invocation i was given (and its Date.now())
    local,        \* local[i]: the handler's local constants of invocation i
    response,     \* response[i]: what invocation i returned
    calls,        \* calls[i]: how often invocation i called each collaborator
    trace,        \* trace[i]: the steps invocation i has taken, in order
    wrote,        \* wrote[i]: the documents of invocation i that the store accepted
    answers,      \* answers[i]: what the completion service and the email provider answered
    dash          \* the dashboard invocation, with the key and the secret it was given

vars ==
    <<ledger, serverClock, pc, event, local, response, calls, trace, wrote, answers, dash>>

intakeVars == <<pc, event, local, response, calls, trace, wrote, answers>>

-----------------------------------------------------------------------------
(* Bounds *)

\* how many intake invocations there are
MaxInv == 2

Invs == 1 .. MaxInv

\* the readings of Date.now(): two invocations read the same millisecond or not
Times == {1, 2}

-----------------------------------------------------------------------------
(* Values *)

Undefined == "undefined"

NoBody == [x \in {} |-> ""]

NotProvided == <<"Not provided">>

DefaultAudit == "Audit generation completed."

Has(body, k) == k \in DOMAIN body

\* the bodies of the notifications the model sends
BodyScenario ==
    [email |-> "a@b.com", sale_id |-> "ORD-1",
     cf_website |-> <<"https://", "www.", "acme.io">>,
     price |-> <<"5", "0", "0", "0">>]

\* no sale_id: the order id is ORD-<now>, which is ORD-1 at time 1
BodyFallback ==
    [email |-> "c@d.org", website |-> <<"example.com">>,
     price |-> <<"1", "9", "9", "9">>, currency |-> "USD"]

Bodies == {BodyScenario, BodyFallback}

\* a body that is no form encoding of a notification (JSON text, say):
\* URLSearchParams takes it as keys that the handler never reads
BodyJunk == [notification |-> "{"]

\* the prices a notification can carry: '', 5000, 0, abc, 12abc, -5
Prices ==
    {<<>>, <<"5", "0", "0", "0">>, <<"0">>, <<"a", "b", "c">>,
     <<"1", "2", "a", "b", "c">>, <<"-", "5">>}

With(body, k, v) == [x \in DOMAIN body \cup {k} |-> IF x = k THEN v ELSE body[x]]

\* the bodies bs, and each of them with the key k set to a value of vals
WithField(bs, k, vals) == bs \cup {With(b, k, v) : b \in bs, v \in vals}

\* notifications with and without each of the keys that the handler reads
FormBodies ==
    {BodyJunk} \cup
    WithField(
      WithField(
        WithField(
          WithField({[email |-> "a@b.com"]}, "sale_id", {"ORD-1"}),
          "cf_website", {<<"https://", "www.", "acme.io">>}),
        "price", Prices),
      "currency", {"", "USD"})

Methods == {"POST", "GET"}

-----------------------------------------------------------------------------
(* Parsing (handler, step 2) *)

\* a form value is truthy when the key is there and the value is not ''
TruthyStr(body, k) == Has(body, k) /\ body[k] # ""

TruthySeq(body, k) == Has(body, k) /\ body[k] # <<>>

\* saleData.sale_id || `ORD-${Date.now()}`
OrderIdOf(body, now) ==
    IF TruthyStr(body, "sale_id") THEN body.sale_id ELSE "ORD-" \o ToString(now)

\* saleData.email
EmailOf(body) == IF Has(body, "email") THEN body.email ELSE Undefined

\* saleData['custom_fields[website]'] || saleData.website || 'Not provided'
RawUrlOf(body) ==
    IF TruthySeq(body, "cf_website") THEN body.cf_website
    ELSE IF TruthySeq(body, "website") THEN body.website
    ELSE NotProvided

\* businessUrl.replace(/^(https?:\/\/)?(www\.)?/, '')
NormalizeUrl(u) ==
    LET a == IF u # <<>> /\ Head(u) \in {"http://", "https://"} THEN Tail(u) ELSE u
    IN  IF a # <<>> /\ Head(a) = "www." THEN Tail(a) ELSE a

BusinessUrlOf(body) == NormalizeUrl(RawUrlOf(body))

IsDigit(c) == c \in {"0", "1", "2", "3", "4", "5", "6", "7", "8", "9"}

DigitVal(c) ==
    CASE c = "0" -> 0 [] c = "1" -> 1 [] c = "2" -> 2 [] c = "3" -> 3 [] c = "4" -> 4
      [] c = "5" -> 5 [] c = "6" -> 6 [] c = "7" -> 7 [] c = "8" -> 8 [] c = "9" -> 9

RECURSIVE DigitsPrefix(_, _, _)
\* the value of the longest prefix of digits of s, and whether it has any digit
DigitsPrefix(s, acc, seen) ==
    IF s # <<>> /\ IsDigit(Head(s))
    THEN DigitsPrefix(Tail(s), 10 * acc + DigitVal(Head(s)), TRUE)
    ELSE [nan |-> ~seen, val |-> acc]

RECURSIVE SkipSpaces(_)
SkipSpaces(s) == IF s # <<>> /\ Head(s) = " " THEN SkipSpaces(Tail(s)) ELSE s

\* parseInt(s): leading blanks, an optional sign, then the digits there are
ParseInt(s) ==
    LET t   == SkipSpaces(s)
        neg == t # <<>> /\ Head(t) = "-"
        u   == IF t # <<>> /\ Head(t) \in {"-", "+"} THEN Tail(t) ELSE t
        d   == DigitsPrefix(u, 0, FALSE)
    IN  [nan |-> d.nan, val |-> IF d.nan THEN 0 ELSE IF neg THEN 0 - d.val ELSE d.val]

Abs(n) == IF n < 0 THEN 0 - n ELSE n

\* (n / 100).toFixed(2) for an integer (or NaN) n: the string sign whole "." frac
ToFixed2OfHundredth(n) ==
    IF n.nan THEN [nan |-> TRUE, neg |-> FALSE, whole |-> 0, frac |-> 0]
    ELSE [nan |-> FALSE, neg |-> n.val < 0, whole |-> Abs(n.val) \div 100, frac |-> Abs(n.val) % 100]

ZeroAmountStr == [nan |-> FALSE, neg |-> FALSE, whole |-> 0, frac |-> 0]

\* saleData.price ? (parseInt(saleData.price) / 100).toFixed(2) : '0.00'
AmountStrOf(body) ==
    IF TruthySeq(body, "price") THEN ToFixed2OfHundredth(ParseInt(body.price)) ELSE ZeroAmountStr

\* parseFloat(amount), as a number of hundredths
ParseFloat(a) ==
    IF a.nan THEN [nan |-> TRUE, cents |-> 0]
    ELSE [nan |-> FALSE, cents |-> (IF a.neg THEN 0 - 1 ELSE 1) * (a.whole * 100 + a.frac)]

\* saleData.currency || 'ZAR'
CurrencyOf(body) == IF TruthyStr(body, "currency") THEN body.currency ELSE "ZAR"

-----------------------------------------------------------------------------
(* Results of a call: a returned value, or an exception that escapes *)

Ret(v) == [threw |-> FALSE, value |-> v]

Throw(msg) == [threw |-> TRUE, value |-> msg]

-----------------------------------------------------------------------------
(* Report Generator: generateAIaudit *)

\* what the completion service can answer to the one fetch
GroqOutcomes ==
    {"ok",             \* 200, choices[0].message.content is a non-empty string
     "non_string",     \* 200, choices[0].message.content is truthy but no string
     "no_content",     \* 200, choices[0] is there, its message or content is missing or ''
     "empty_choices",  \* 200, choices is []
     "no_choices",     \* 200, no choices property: data.choices[0] is a TypeError
     "bad_json",       \* 200, response.json() rejects
     "http_error",     \* response.ok is false
     "network_error"}  \* fetch rejects

\* the answers as generateAIaudit tells them apart
GroqClass(o) ==
    CASE o = "ok" -> "ok"
      [] o = "non_string" -> "non_string"
      [] o \in {"no_content", "empty_choices"} -> "no_content"
      [] OTHER -> "error"      \* the try block threw

NoContent == [kind |-> "none", url |-> <<>>]

ModelText == [kind |-> "text", url |-> <<>>]

DefaultText == [kind |-> "default", url |-> <<>>]

NonString == [kind |-> "nonstring", url |-> <<>>]

\* `**AI-Powered Business Automation Audit for ${businessUrl}**...`
Placeholder(businessUrl) == [kind |-> "placeholder", url |-> businessUrl]

GenerateAIaudit(businessUrl, o) ==
    IF o \in {"network_error", "http_error", "bad_json", "no_choices"}
    THEN Ret(Placeholder(businessUrl))           \* catch (error)
    ELSE IF o \in {"empty_choices", "no_content"}
    THEN Ret(DefaultText)                        \* ... || 'Audit generation completed.'
    ELSE IF o = "non_string" THEN Ret(NonString)
    ELSE Ret(ModelText)

-----------------------------------------------------------------------------
(* Delivery Notifier: sendAuditEmail *)

\* what the email provider can answer to the one send
ResendOutcomes ==
    {"sent",            \* { data: { id }, error: null }
     "provider_error",  \* { data: null, error }
     "no_data",         \* { data: null, error: null }: data.id is a TypeError
     "rejected"}        \* send rejects

\* the provider confirmed the send with an id, or it did not
ResendClass(o) == IF o = "sent" THEN "confirmed" ELSE "fault"

NoResult == [success |-> FALSE, detail |-> "none"]

\* auditContent.replace(/\n/g, '<br>') is evaluated before resend.emails.send is
\* called; it is a TypeError when auditContent is no string
SendIsCalled(auditContent) == auditContent.kind # "nonstring"

\* mutant: sendAuditEmail without its try/catch
SendAuditEmailNoCatch(auditContent, o) ==
    IF ~SendIsCalled(auditContent) THEN Throw("auditContent.replace is not a function")
    ELSE IF o = "sent" THEN Ret([success |-> TRUE, detail |-> "emailId"])
    ELSE Throw(o)

\* mutant: the provider's error field is not looked at, every settled send counts
SendAuditEmailIgnoresError(auditContent, o) ==
    IF ~SendIsCalled(auditContent)
    THEN Ret([success |-> FALSE, detail |-> "error"])
    ELSE IF o \in {"sent", "provider_error"}
    THEN Ret([success |-> TRUE, detail |-> "emailId"])
    ELSE Ret([success |-> FALSE, detail |-> "error"])

\* mutant: a settled send without data counts as sent
SendAuditEmailOptimistic(auditContent, o) ==
    IF ~SendIsCalled(auditContent)
    THEN Ret([success |-> FALSE, detail |-> "error"])
    ELSE IF o \in {"sent", "no_data"}
    THEN Ret([success |-> TRUE, detail |-> "emailId"])
    ELSE Ret([success |-> FALSE, detail |-> "error"])

SendAuditEmail(auditContent, o) ==
    IF ~SendIsCalled(auditContent)
    THEN Ret([success |-> FALSE, detail |-> "error"])   \* catch (error)
    ELSE IF o = "sent"
    THEN Ret([success |-> TRUE, detail |-> "emailId"])
    ELSE Ret([success |-> FALSE, detail |-> "error"])   \* catch (error)

-----------------------------------------------------------------------------
(* Sale Ledger: db.collection('sales').doc(orderId).set({...}) *)

\* the store takes the document, or set() throws or rejects
StoreOutcomes == {"ok", "fault"}

\* mutant: emailDelivered is written as a constant, like auditGenerated
SaleRecordDeliveredAlways(l, body, ts) ==
    [orderId        |-> l.orderId,
     customerEmail  |-> l.email,
     businessUrl    |-> l.businessUrl,
     amount         |-> ParseFloat(l.amount),
     currency       |-> CurrencyOf(body),
     auditGenerated |-> TRUE,
     emailDelivered |-> TRUE,
     timestamp      |-> ts]

\* mutant: auditGenerated tells whether the service produced the report
SaleRecordGeneratedIfReal(l, body, ts) ==
    [orderId        |-> l.orderId,
     customerEmail  |-> l.email,
     businessUrl    |-> l.businessUrl,
     amount         |-> ParseFloat(l.amount),
     currency       |-> CurrencyOf(body),
     auditGenerated |-> l.auditContent.kind # "placeholder",
     emailDelivered |-> l.emailResult.success,
     timestamp      |-> ts]

\* the object handed to set(), stamped by the server
SaleRecord(l, body, ts) ==
    [orderId        |-> l.orderId,
     customerEmail  |-> l.email,
     businessUrl    |-> l.businessUrl,
     amount         |-> ParseFloat(l.amount),
     currency       |-> CurrencyOf(body),
     auditGenerated |-> TRUE,
     emailDelivered |-> l.emailResult.success,
     timestamp      |-> ts]

\* mutant: the write adds a document (add()) instead of replacing the one under id
DocSetAdd(store, id, data) == store \cup {[id |-> id, data |-> data]}

\* mutant: the write only creates (create()): a document under id is left as it is
DocSetKeepFirst(store, id, data) ==
    IF \E d \in store : d.id = id THEN store ELSE store \cup {[id |-> id, data |-> data]}

\* mutant: set() with merging, a delivery once recorded under id stays recorded
DocSetKeepDelivered(store, id, data) ==
    {d \in store : d.id # id} \cup
    {[id |-> id,
      data |-> [data EXCEPT !.emailDelivered =
                   @ \/ \E d \in store : d.id = id /\ d.data.emailDelivered]]}

\* doc(id).set(data): the document under id is replaced
DocSet(store, id, data) ==
    {d \in store : d.id # id} \cup {[id |-> id, data |-> data]}

\* mutant: the set() is awaited outside the inner try/catch
LedgerSetNoCatch(store, id, data, o) ==
    IF o = "ok" THEN Ret(DocSet(store, id, data)) ELSE Throw(o)

\* the awaited set() inside try { } catch (firebaseError) { }
LedgerSet(store, id, data, o) ==
    IF o = "ok" THEN Ret(DocSet(store, id, data))
    ELSE Ret(store)                                      \* catch (firebaseError)

-----------------------------------------------------------------------------
(* Intake Workflow: handler of process-sale *)

NoEvent == [method |-> "", body |-> NoBody, now |-> 0]

NoLocal ==
    [email |-> "", orderId |-> "", businessUrl |-> <<>>, amount |-> ZeroAmountStr,
     auditContent |-> NoContent, emailResult |-> NoResult]

NoResponse == [statusCode |-> 0, body |-> NoBody]

NoCalls == [fetch |-> 0, send |-> 0, set |-> 0]

NoAnswers == [groq |-> "none", resend |-> "none"]

MethodNotAllowed == [statusCode |-> 405, body |-> [error |-> "Method not allowed"]]

InternalError == [statusCode |-> 500, body |-> [error |-> "Internal server error"]]

Processed(l) ==
    [statusCode |-> 200,
     body |-> [success  |-> l.emailResult.success,
               message  |-> "Cyrnel Origin audit workflow complete.",
               order_id |-> l.orderId]]

\* Date.now() is read only when the body has no usable sale_id
ClockReads(body) == IF TruthyStr(body, "sale_id") THEN {0} ELSE Times

\* step 2, the constants the handler derives from the body
Parsed(body, now) ==
    [NoLocal EXCEPT !.email = EmailOf(body),
                    !.orderId = OrderIdOf(body, now),
                    !.businessUrl = BusinessUrlOf(body),
                    !.amount = AmountStrOf(body)]

\* the outer catch (error) of the handler
Fail(i) ==
    /\ response' = [response EXCEPT ![i] = InternalError]
    /\ pc' = [pc EXCEPT ![i] = "done"]
    /\ trace' = [trace EXCEPT ![i] = Append(@, "respond")]

\* mutant: the method check is missing
MethodAcceptedAny(m) == TRUE

\* event.httpMethod !== 'POST' is the rejection
MethodAccepted(m) == m = "POST"

\* the handler up to its first await: method check, parsing, the fetch is sent;
\* the invocations are numbered in the order in which they arrive
HandlerEntryOn(i, bodies) ==
    /\ pc[i] = "idle"
    /\ \A j \in Invs : j < i => pc[j] # "idle"
    /\ \E m \in Methods, b \in bodies :
         IF ~MethodAccepted(m)
         THEN /\ event' = [event EXCEPT ![i] = [method |-> m, body |-> b, now |-> 0]]
              /\ response' = [response EXCEPT ![i] = MethodNotAllowed]
              /\ pc' = [pc EXCEPT ![i] = "done"]
              /\ trace' = [trace EXCEPT ![i] = Append(@, "respond")]
              /\ UNCHANGED <<local, calls>>
         ELSE \E now \in ClockReads(b) :
              /\ event' = [event EXCEPT ![i] = [method |-> m, body |-> b, now |-> now]]
              /\ local' = [local EXCEPT ![i] = Parsed(b, now)]
              /\ calls' = [calls EXCEPT ![i].fetch = @ + 1]
              /\ trace' = [trace EXCEPT ![i] = Append(@, "generate_call")]
              /\ pc' = [pc EXCEPT ![i] = "awaitGen"]
              /\ UNCHANGED response
    /\ UNCHANGED <<ledger, serverClock, wrote, answers, dash>>

\* an invocation for one of the notifications of Bodies
HandlerEntry(i) == HandlerEntryOn(i, Bodies)

\* mutant: sendAuditEmail is not awaited, the set() is sent while the send is pending
GenReturnNoAwait(i) ==
    /\ pc[i] = "awaitGen"
    /\ \E o \in GroqOutcomes :
         LET g == GenerateAIaudit(local[i].businessUrl, o) IN
         /\ local' = [local EXCEPT ![i].auditContent = g.value]
         /\ calls' = [calls EXCEPT ![i].send = @ + 1, ![i].set = @ + 1]
         /\ trace' = [trace EXCEPT ![i] = @ \o <<"generate_ret", "deliver_call", "persist_call">>]
         /\ pc' = [pc EXCEPT ![i] = "awaitSet"]
    /\ UNCHANGED <<ledger, serverClock, event, response, wrote, answers, dash>>

\* the fetch settles: generateAIaudit returns, sendAuditEmail runs up to its await
GenReturn(i) ==
    /\ pc[i] = "awaitGen"
    /\ \E o \in GroqOutcomes :
         LET g == GenerateAIaudit(local[i].businessUrl, o) IN
         IF g.threw
         THEN /\ Fail(i)
              /\ answers' = [answers EXCEPT ![i].groq = GroqClass(o)]
              /\ UNCHANGED <<local, calls>>
         ELSE IF SendIsCalled(g.value)
         THEN /\ local' = [local EXCEPT ![i].auditContent = g.value]
              /\ answers' = [answers EXCEPT ![i].groq = GroqClass(o)]
              /\ calls' = [calls EXCEPT ![i].send = @ + 1]
              /\ trace' = [trace EXCEPT ![i] = @ \o <<"generate_ret", "deliver_call">>]
              /\ pc' = [pc EXCEPT ![i] = "awaitSend"]
              /\ UNCHANGED response
         ELSE LET e == SendAuditEmail(g.value, "sent") IN
              /\ answers' = [answers EXCEPT ![i].groq = GroqClass(o),
                                              ![i].resend = "not_called"]
              /\ IF e.threw
                 THEN /\ Fail(i)
                      /\ local' = [local EXCEPT ![i].auditContent = g.value]
                      /\ UNCHANGED calls
                 ELSE
                   /\ local' = [local EXCEPT ![i].auditContent = g.value,
                                             ![i].emailResult = e.value]
                   /\ calls' = [calls EXCEPT ![i].set = @ + 1]
                   /\ trace' = [trace EXCEPT ![i] =
                          @ \o <<"generate_ret", "deliver_call", "deliver_ret", "persist_call">>]
                   /\ pc' = [pc EXCEPT ![i] = "awaitSet"]
                   /\ UNCHANGED response
    /\ UNCHANGED <<ledger, serverClock, event, wrote, dash>>

\* mutant: a failed send is sent once more
DeliverReturnRetry(i) ==
    /\ pc[i] = "awaitSend"
    /\ \E o \in ResendOutcomes :
         LET e == SendAuditEmail(local[i].auditContent, o) IN
         IF ~e.value.success /\ calls[i].send < 2
         THEN /\ calls' = [calls EXCEPT ![i].send = @ + 1]
              /\ UNCHANGED <<local, trace, pc>>
         ELSE /\ local' = [local EXCEPT ![i].emailResult = e.value]
              /\ calls' = [calls EXCEPT ![i].set = @ + 1]
              /\ trace' = [trace EXCEPT ![i] = @ \o <<"deliver_ret", "persist_call">>]
              /\ pc' = [pc EXCEPT ![i] = "awaitSet"]
    /\ UNCHANGED <<ledger, serverClock, event, response, wrote, answers, dash>>

\* the send settles: sendAuditEmail returns, the set() is sent
DeliverReturn(i) ==
    /\ pc[i] = "awaitSend"
    /\ \E o \in ResendOutcomes :
         LET e == SendAuditEmail(local[i].auditContent, o) IN
         /\ answers' = [answers EXCEPT ![i].resend = ResendClass(o)]
         /\ IF e.threw
            THEN Fail(i) /\ UNCHANGED <<local, calls>>
            ELSE
              /\ local' = [local EXCEPT ![i].emailResult = e.value]
              /\ calls' = [calls EXCEPT ![i].set = @ + 1]
              /\ trace' = [trace EXCEPT ![i] = @ \o <<"deliver_ret", "persist_call">>]
              /\ pc' = [pc EXCEPT ![i] = "awaitSet"]
              /\ UNCHANGED response
    /\ UNCHANGED <<ledger, serverClock, event, wrote, dash>>

\* the set() settles: the store has taken the document or not, the handler returns
PersistReturn(i) ==
    /\ pc[i] = "awaitSet"
    /\ \E o \in StoreOutcomes :
         LET data == SaleRecord(local[i], event[i].body, serverClock + 1)
             w    == LedgerSet(ledger, local[i].orderId, data, o)
         IN
         IF w.threw
         THEN Fail(i) /\ UNCHANGED <<ledger, serverClock, wrote>>
         ELSE /\ ledger' = w.value
              /\ serverClock' = IF o = "ok" THEN serverClock + 1 ELSE serverClock
              /\ wrote' = [wrote EXCEPT ![i] = IF o = "ok" THEN Append(@, data) ELSE @]
              /\ response' = [response EXCEPT ![i] = Processed(local[i])]
              /\ trace' = [trace EXCEPT ![i] = @ \o <<"persist_ret", "respond">>]
              /\ pc' = [pc EXCEPT ![i] = "done"]
    /\ UNCHANGED <<event, local, calls, answers, dash>>

-----------------------------------------------------------------------------
(* Summary Aggregator: handler of get-dashboard *)

Limit == 50

\* process.env.DASHBOARD_SECRET_KEY: unset, or set
Secrets == {Undefined, "s3cret"}

\* event.queryStringParameters?.key: absent, the right one, a wrong one
Keys == {Undefined, "s3cret", "guess"}

ReadOutcomes == {"ok", "fault"}

RECURSIVE NewestFirst(_)
\* orderBy('timestamp', 'desc')
NewestFirst(docs) ==
    IF docs = {} THEN <<>>
    ELSE LET d == CHOOSE x \in docs : \A y \in docs : y.data.timestamp <= x.data.timestamp
         IN  <<d>> \o NewestFirst(docs \ {d})

\* .limit(50)
Take(q, n) == SubSeq(q, 1, IF Len(q) < n THEN Len(q) ELSE n)

Query(store) == Take(NewestFirst(store), Limit)

\* the object pushed to recentSales for one document
SaleView(d) ==
    LET sale == d.data IN
    [id             |-> d.id,
     orderId        |-> IF sale.orderId # "" THEN sale.orderId ELSE d.id,
     customerEmail  |-> IF sale.customerEmail \notin {Undefined, ""}
                        THEN sale.customerEmail ELSE "N/A",
     businessUrl    |-> IF sale.businessUrl # <<>> THEN sale.businessUrl ELSE <<"N/A">>,
     amount         |-> IF ~sale.amount.nan /\ sale.amount.cents # 0
                        THEN sale.amount ELSE [nan |-> FALSE, cents |-> 0],
     currency       |-> IF sale.currency # "" THEN sale.currency ELSE "ZAR",
     auditGenerated |-> sale.auditGenerated,
     emailDelivered |-> sale.emailDelivered,
     timestamp      |-> <<"en-ZA", sale.timestamp>>]

RECURSIVE Revenue(_)
\* if (sale.amount) totalRevenue += sale.amount, in hundredths
Revenue(q) ==
    IF q = <<>> THEN 0
    ELSE (IF ~Head(q).data.amount.nan THEN Head(q).data.amount.cents ELSE 0) + Revenue(Tail(q))

RECURSIVE Delivered(_)
\* if (sale.emailDelivered === true) successfulDeliveries++
Delivered(q) ==
    IF q = <<>> THEN 0
    ELSE (IF Head(q).data.emailDelivered = TRUE THEN 1 ELSE 0) + Delivered(Tail(q))

\* mutant: the rate is cut after the first decimal instead of rounded
SuccessRateTruncated(delivered, total) ==
    IF total > 0
    THEN [string |-> TRUE, tenths |-> (1000 * delivered) \div total]
    ELSE [string |-> FALSE, tenths |-> 0]

\* totalSales > 0 ? ((successfulDeliveries / totalSales) * 100).toFixed(1) : 0
\* a string of tenths, or the number 0
SuccessRate(delivered, total) ==
    IF total > 0
    THEN [string |-> TRUE, tenths |-> (2 * 1000 * delivered + total) \div (2 * total)]
    ELSE [string |-> FALSE, tenths |-> 0]

Summarize(q) ==
    [summary |->
        [totalRevenue         |-> ToFixed2OfHundredth([nan |-> FALSE, val |-> Revenue(q)]),
         totalSales           |-> Len(q),
         successRate          |-> SuccessRate(Delivered(q), Len(q)),
         successfulDeliveries |-> Delivered(q)],
     recentSales |-> [k \in 1 .. Len(q) |-> SaleView(q[k])]]

Unauthorized == [statusCode |-> 401, body |-> [error |-> "Unauthorized"]]

FetchFailed ==
    [statusCode |-> 500, body |-> [error |-> "Failed to fetch data", message |-> "fault"]]

\* read: how the store answered the query of this invocation
NoDash ==
    [pc |-> "idle", key |-> Undefined, expected |-> Undefined, reads |-> 0,
     read |-> "none", response |-> NoResponse]

\* mutant: only a missing key is rejected
KeyRejectedIfMissing(key, expected) == key = Undefined

\* event.queryStringParameters?.key !== process.env.DASHBOARD_SECRET_KEY
KeyRejected(key, expected) == key # expected

\* the handler up to its await: the security check, then the query is sent
DashEntry ==
    /\ dash.pc = "idle"
    /\ \E key \in Keys, expected \in Secrets :
         IF KeyRejected(key, expected)
         THEN dash' = [dash EXCEPT !.pc = "done", !.key = key, !.expected = expected,
                                   !.response = Unauthorized]
         ELSE dash' = [dash EXCEPT !.pc = "awaitRead", !.key = key, !.expected = expected,
                                   !.reads = @ + 1]
    /\ UNCHANGED <<ledger, serverClock, intakeVars>>

\* mutant: the catch answers with an empty summary
DashResultEmptyOnFault(store, o) ==
    IF o = "ok"
    THEN [statusCode |-> 200, body |-> Summarize(Query(store))]
    ELSE [statusCode |-> 500, body |-> Summarize(<<>>)]

\* the try block of the handler after the security check, and its catch
DashResult(store, o) ==
    IF o = "ok"
    THEN [statusCode |-> 200, body |-> Summarize(Query(store))]
    ELSE FetchFailed

\* mutant: the documents that were read are taken out of the collection
DashReadReturnConsuming ==
    /\ dash.pc = "awaitRead"
    /\ \E o \in ReadOutcomes :
         /\ dash' = [dash EXCEPT !.pc = "done", !.read = o, !.response = DashResult(ledger, o)]
         /\ ledger' = IF o = "ok" THEN {} ELSE ledger
    /\ UNCHANGED <<serverClock, intakeVars>>

\* the query settles: the summary is built, or the catch answers 500
DashReadReturn ==
    /\ dash.pc = "awaitRead"
    /\ \E o \in ReadOutcomes :
         dash' = [dash EXCEPT !.pc = "done", !.read = o, !.response = DashResult(ledger, o)]
    /\ UNCHANGED <<ledger, serverClock, intakeVars>>

-----------------------------------------------------------------------------
(* The system *)

Init ==
    /\ ledger = {}
    /\ serverClock = 0
    /\ pc = [i \in Invs |-> "idle"]
    /\ event = [i \in Invs |-> NoEvent]
    /\ local = [i \in Invs |-> NoLocal]
    /\ response = [i \in Invs |-> NoResponse]
    /\ calls = [i \in Invs |-> NoCalls]
    /\ trace = [i \in Invs |-> <<>>]
    /\ wrote = [i \in Invs |-> <<>>]
    /\ answers = [i \in Invs |-> NoAnswers]
    /\ dash = NoDash

Next ==
    \/ \E i \in Invs : HandlerEntry(i)
    \/ \E i \in Invs : GenReturn(i)
    \/ \E i \in Invs : DeliverReturn(i)
    \/ \E i \in Invs : PersistReturn(i)
    \/ DashEntry
    \/ DashReadReturn

Spec == Init /\ [][Next]_vars

\* the intake invocations alone
NextIntake ==
    \/ \E i \in Invs : HandlerEntry(i)
    \/ \E i \in Invs : GenReturn(i)
    \/ \E i \in Invs : DeliverReturn(i)
    \/ \E i \in Invs : PersistReturn(i)

SpecIntake == Init /\ [][NextIntake]_vars

\* the dashboard invocation next to one intake invocation
NextDash ==
    \/ DashEntry
    \/ DashReadReturn
    \/ HandlerEntry(1)
    \/ GenReturn(1)
    \/ DeliverReturn(1)
    \/ PersistReturn(1)

SpecDash == Init /\ [][NextDash]_vars

\* one intake invocation for any of the notifications of FormBodies
NextAnyBody ==
    \/ HandlerEntryOn(1, FormBodies)
    \/ GenReturn(1)
    \/ DeliverReturn(1)
    \/ PersistReturn(1)

SpecAnyBody == Init /\ [][NextAnyBody]_vars

\* The dashboard over a ledger that earlier intake invocations have filled:
\* the ledger is what MaxWrites accepted set() calls at most leave behind.
MaxWrites == 3

SaleIds == {"ORD-1", "ORD-2", "ORD-3"}

PastPrices == {<<"5", "0", "0", "0">>, <<>>}

\* the record an intake invocation for order id built, before the server stamps it
PastSale(id, price, delivered) ==
    LET body == [email |-> "a@b.com", sale_id |-> id, price |-> price]
        l    == [Parsed(body, 0) EXCEPT
                    !.emailResult = SendAuditEmail(ModelText,
                                        IF delivered THEN "sent" ELSE "rejected").value]
    IN  SaleRecord(l, body, 0)

PastSales == {PastSale(id, p, e) : id \in SaleIds, p \in PastPrices, e \in BOOLEAN}

RECURSIVE Replay(_)
\* the ledger after the writes ws, the k-th stamped with time k
Replay(ws) ==
    IF ws = <<>> THEN {}
    ELSE LET k == Len(ws) IN
         DocSet(Replay(SubSeq(ws, 1, k - 1)), ws[k].orderId, [ws[k] EXCEPT !.timestamp = k])

InitStored ==
    /\ \E ws \in UNION {[1 .. n -> PastSales] : n \in 0 .. MaxWrites} :
         /\ ledger = Replay(ws)
         /\ serverClock = Len(ws)
    /\ pc = [i \in Invs |-> "idle"]
    /\ event = [i \in Invs |-> NoEvent]
    /\ local = [i \in Invs |-> NoLocal]
    /\ response = [i \in Invs |-> NoResponse]
    /\ calls = [i \in Invs |-> NoCalls]
    /\ trace = [i \in Invs |-> <<>>]
    /\ wrote = [i \in Invs |-> <<>>]
    /\ answers = [i \in Invs |-> NoAnswers]
    /\ dash = NoDash

NextSummary ==
    \/ DashEntry
    \/ DashReadReturn

SpecSummary == InitStored /\ [][NextSummary]_vars

TypeOK ==
    /\ \A i \in Invs : pc[i] \in {"idle", "awaitGen", "awaitSend", "awaitSet", "done"}
    /\ dash.pc \in {"idle", "awaitRead", "done"}

-----------------------------------------------------------------------------
(* Properties of the intake workflow *)

IsPost(i) == event[i].method = "POST"

Returned(i) == pc[i] = "done"

WriteSucceeded(i) == wrote[i] # <<>>

WriteFailed(i) == Returned(i) /\ IsPost(i) /\ calls[i].set = 1 /\ wrote[i] = <<>>

UsedFallbackReport(i) == local[i].auditContent.kind = "placeholder"

\* C1: an intake request whose method is not POST is answered 405 with an error
\* body, and the invocation calls neither the generation service nor the email
\* provider nor the store.
NonPostRejectedWithoutEffect ==
    \A i \in Invs :
        event[i].method \notin {"", "POST"} =>
            /\ response[i] = MethodNotAllowed
            /\ calls[i] = NoCalls
            /\ wrote[i] = <<>>
            /\ local[i] = NoLocal
            /\ trace[i] = <<"respond">>

\* a GET has been rejected while the ledger holds another invocation's record
NonPostRejectedWitness ==
    \E i \in Invs :
        /\ event[i].method = "GET"
        /\ Returned(i)
        /\ response[i].statusCode = 405
        /\ ledger # {}

\* C2: a POST is answered 200 with success, message and order_id whatever the
\* generation service, the email provider and the store do; no invocation is
\* answered 500.
PostAlwaysProcessed ==
    \A i \in Invs :
        /\ response[i].statusCode # 500
        /\ (Returned(i) /\ IsPost(i)) =>
              /\ response[i].statusCode = 200
              /\ DOMAIN response[i].body = {"success", "message", "order_id"}
              /\ response[i].body.order_id = local[i].orderId

\* generation, delivery and the ledger write have all failed, and the answer is 200
AllCollaboratorsFailedWitness ==
    \E i \in Invs :
        /\ WriteFailed(i)
        /\ UsedFallbackReport(i)
        /\ calls[i].send = 1
        /\ ~local[i].emailResult.success
        /\ response[i].statusCode = 200

SameRunUpToPersistence(i, j) ==
    /\ Returned(i) /\ Returned(j)
    /\ IsPost(i) /\ IsPost(j)
    /\ event[i] = event[j]
    /\ local[i].auditContent = local[j].auditContent
    /\ local[i].emailResult = local[j].emailResult

\* C3: two invocations with the same request and the same generation and delivery
\* outcomes return the same status, success and order_id when the ledger write of
\* one succeeds and that of the other fails.
ResponseIndependentOfPersistence ==
    \A i, j \in Invs :
        (SameRunUpToPersistence(i, j) /\ WriteSucceeded(i) /\ ~WriteSucceeded(j)) =>
            /\ response[i].statusCode = response[j].statusCode
            /\ response[i].body = response[j].body

\* two such invocations: the write of one succeeded, that of the other failed
PersistenceDiffersWitness ==
    \E i, j \in Invs :
        /\ SameRunUpToPersistence(i, j)
        /\ WriteSucceeded(i)
        /\ WriteFailed(j)
        /\ response[i] = response[j]

\* C4: the success value an invocation returns is the emailDelivered value of the
\* record it wrote.
ResponseMatchesRecord ==
    \A i \in Invs :
        (Returned(i) /\ WriteSucceeded(i)) =>
            /\ Len(wrote[i]) = 1
            /\ response[i].body.success = wrote[i][1].emailDelivered

\* an invocation whose delivery failed has written its record
UndeliveredRecordedWitness ==
    \E i \in Invs :
        /\ Returned(i)
        /\ WriteSucceeded(i)
        /\ response[i].body.success = FALSE
        /\ [id |-> local[i].orderId, data |-> wrote[i][1]] \in ledger

\* C5: every record in the ledger has auditGenerated = true.
AuditGeneratedAlwaysTrue ==
    \A d \in ledger : d.data.auditGenerated = TRUE

\* the ledger holds a record written after the generation service failed
FallbackRecordedWitness ==
    \E i \in Invs :
        /\ UsedFallbackReport(i)
        /\ WriteSucceeded(i)
        /\ [id |-> local[i].orderId, data |-> wrote[i][1]] \in ledger

DocsUnder(id) == {d \in ledger : d.id = id}

\* the invocations whose write under id the store has taken
WritersOf(id) == {i \in Invs : WriteSucceeded(i) /\ local[i].orderId = id}

\* the order ids in use
OrderIds == {d.id : d \in ledger} \cup {local[i].orderId : i \in {j \in Invs : calls[j].fetch > 0}}

\* d holds what invocation i built: every field but the server's timestamp
HoldsValuesOf(d, i) ==
    d.data = SaleRecord(local[i], event[i].body, d.data.timestamp)

\* j's write, if the store took it, came after i's
WroteBefore(i, j) ==
    /\ WriteSucceeded(i)
    /\ WriteSucceeded(j) => wrote[i][1].timestamp < wrote[j][1].timestamp

\* C6, as claimed: once two notifications with the same orderId have been
\* processed, there is exactly one record under that key and it holds the values
\* of the second invocation.  (Read in the claim's favour: the first invocation's
\* record was stored, and the second invocation came and wrote after it.)
SecondInvocationAlwaysRecorded ==
    \A i, j \in Invs :
        (/\ i < j
         /\ Returned(i) /\ Returned(j)
         /\ IsPost(i) /\ IsPost(j)
         /\ local[i].orderId = local[j].orderId
         /\ WroteBefore(i, j)) =>
            /\ Cardinality(DocsUnder(local[j].orderId)) = 1
            /\ \A d \in DocsUnder(local[j].orderId) : HoldsValuesOf(d, j)

\* C6, amended: there is at most one record under an orderId, none exactly when
\* no write under it succeeded, and it is the record of the write that succeeded
\* last (the second invocation's when its write lands after the first's).
LedgerHoldsLastSuccessfulWrite ==
    \A id \in OrderIds :
        /\ Cardinality(DocsUnder(id)) <= 1
        /\ (DocsUnder(id) = {}) <=> (WritersOf(id) = {})
        /\ \A d \in DocsUnder(id) :
              \E w \in WritersOf(id) :
                  /\ d.data = wrote[w][1]
                  /\ HoldsValuesOf(d, w)
                  /\ \A v \in WritersOf(id) : wrote[v][1].timestamp <= d.data.timestamp

\* two notifications with one orderId and different values were processed one
\* write after the other: the one record under the key is the second's
SecondOverwroteFirstWitness ==
    \E i, j \in Invs :
        /\ i < j
        /\ Returned(i) /\ Returned(j)
        /\ local[i].orderId = local[j].orderId
        /\ WriteSucceeded(i) /\ WriteSucceeded(j)
        /\ wrote[i][1].timestamp < wrote[j][1].timestamp
        /\ wrote[i][1].customerEmail # wrote[j][1].customerEmail
        /\ DocsUnder(local[j].orderId) = {[id |-> local[j].orderId, data |-> wrote[j][1]]}

Canon ==
    <<"generate_call", "generate_ret", "deliver_call", "deliver_ret",
      "persist_call", "persist_ret", "respond">>

Did(i, step) == \E k \in 1 .. Len(trace[i]) : trace[i][k] = step

\* C7: an invocation generates, delivers, persists and responds in this order:
\* the delivery starts after the generation has returned, the ledger write
\* starts after the delivery has returned, and nothing is written before both.
StepsInOrder ==
    \A i \in Invs :
        IsPost(i) =>
            /\ Len(trace[i]) <= Len(Canon)
            /\ trace[i] = SubSeq(Canon, 1, Len(trace[i]))
            /\ calls[i].send > 0 => Did(i, "generate_ret")
            /\ calls[i].set > 0 => (Did(i, "generate_ret") /\ Did(i, "deliver_ret"))
            /\ WriteSucceeded(i) => (Did(i, "deliver_ret") /\ Did(i, "persist_call"))
            /\ Returned(i) => trace[i] = Canon

\* an invocation is waiting for its set() while another still waits for its report
PersistingAfterDeliveryWitness ==
    \E i, j \in Invs :
        /\ pc[i] = "awaitSet"
        /\ calls[i].send = 1
        /\ trace[i] = SubSeq(Canon, 1, 5)
        /\ pc[j] = "awaitGen"

\* C8: an invocation calls the generation service, the email provider and the
\* store at most once each, also when the call fails.
NoRetry ==
    \A i \in Invs :
        /\ calls[i].fetch <= 1
        /\ calls[i].send <= 1
        /\ calls[i].set <= 1
        /\ Len(wrote[i]) <= 1

\* all three calls of an invocation failed and each was made once
FailedOnceEachWitness ==
    \E i \in Invs :
        /\ WriteFailed(i)
        /\ UsedFallbackReport(i)
        /\ ~response[i].body.success
        /\ calls[i] = [fetch |-> 1, send |-> 1, set |-> 1]

\* the POST invocations for id that have returned
ProcessedFor(id) == {i \in Invs : IsPost(i) /\ Returned(i) /\ local[i].orderId = id}

\* C9: of N POST invocations with one orderId every one attempts its delivery
\* (sendAuditEmail is entered once by each, and the provider is called once by
\* each whose report is a string), whatever the ledger holds, while the ledger
\* has at most one record under that orderId.
DeliveryNotDeduplicated ==
    \A id \in OrderIds :
        /\ \A i \in ProcessedFor(id) :
              /\ Did(i, "deliver_call")
              /\ calls[i].send = IF local[i].auditContent.kind = "nonstring" THEN 0 ELSE 1
        /\ Cardinality(DocsUnder(id)) <= 1

\* every invocation has processed a POST for one orderId, the provider accepted
\* every email, and the ledger holds one record
DuplicateEmailsWitness ==
    \E id \in OrderIds :
        /\ ProcessedFor(id) = Invs
        /\ \A i \in Invs : calls[i].send = 1 /\ response[i].body.success /\ WriteSucceeded(i)
        /\ Cardinality(DocsUnder(id)) = 1

-----------------------------------------------------------------------------
(* Properties of the summary aggregator *)

\* C10: an aggregation request whose key differs from the configured secret is
\* answered 401 with nothing but an error in the body, and no read is sent to
\* the store: the key is checked before any read.
KeyMismatchUnauthorized ==
    (dash.pc # "idle" /\ dash.key # dash.expected) =>
        /\ dash.pc = "done"
        /\ dash.response.statusCode = 401
        /\ dash.response.body = [error |-> "Unauthorized"]
        /\ dash.reads = 0

\* a wrong key was rejected while the ledger held a record
WrongKeyRejectedWitness ==
    /\ dash.key = "guess"
    /\ dash.expected = "s3cret"
    /\ dash.pc = "done"
    /\ dash.response = Unauthorized
    /\ ledger # {}

-----------------------------------------------------------------------------
(* Properties of the summary aggregator *)

Answered200 == dash.pc = "done" /\ dash.response.statusCode = 200

DeliveredViews(sales) == {k \in DOMAIN sales : sales[k].emailDelivered = TRUE}

\* t tenths is s / n * 100 rounded to one decimal, a tie rounded up
IsRoundedPercent(t, s, n) ==
    /\ 2 * (t * n - 1000 * s) <= n
    /\ 2 * (1000 * s - t * n) < n

\* C11: in the summary of a successful read totalSales is the number of records
\* returned, successfulDeliveries is the number of them whose emailDelivered is
\* true, and successRate is successfulDeliveries / totalSales * 100 rounded to
\* one decimal, or the number 0 when no record is returned.
SummaryCountsAndRate ==
    Answered200 =>
        LET sales == dash.response.body.recentSales
            sum   == dash.response.body.summary
            n     == Len(sales)
            k     == Cardinality(DeliveredViews(sales))
        IN  /\ n = Cardinality(ledger)
            /\ \A d \in ledger : \E j \in DOMAIN sales : sales[j] = SaleView(d)
            /\ sum.totalSales = n
            /\ sum.successfulDeliveries = k
            /\ IF n = 0
               THEN sum.successRate = [string |-> FALSE, tenths |-> 0]
               ELSE /\ sum.successRate.string
                    /\ IsRoundedPercent(sum.successRate.tenths, k, n)

\* three records returned, two of them delivered: the rate is 66.7
TwoOfThreeDeliveredWitness ==
    /\ Answered200
    /\ dash.response.body.summary.totalSales = 3
    /\ dash.response.body.summary.successfulDeliveries = 2
    /\ dash.response.body.summary.successRate = [string |-> TRUE, tenths |-> 667]

\* C12: no step of an aggregation invocation (rejected, answered, or failing on
\* its read) changes the ledger, whatever an intake invocation does around it.
AggregatorReadOnly ==
    [][dash' # dash => ledger' = ledger /\ serverClock' = serverClock]_vars

\* the aggregator has read the record that the intake invocation wrote, and the
\* ledger still holds exactly that record
ReadLeftLedgerWitness ==
    /\ Answered200
    /\ dash.response.body.summary.totalSales = 1
    /\ WriteSucceeded(1)
    /\ ledger = {[id |-> local[1].orderId, data |-> wrote[1][1]]}

\* C13: when the store read of an admitted request fails, the answer is 500 with
\* an error body, and the body carries neither a summary nor recentSales.
ReadFaultAnswered500 ==
    dash.read = "fault" =>
        /\ dash.pc = "done"
        /\ dash.response.statusCode = 500
        /\ "error" \in DOMAIN dash.response.body
        /\ "summary" \notin DOMAIN dash.response.body
        /\ "recentSales" \notin DOMAIN dash.response.body

\* the read failed for a request with the right key while the ledger held a record
ReadFaultOverRecordsWitness ==
    /\ dash.read = "fault"
    /\ dash.key = "s3cret"
    /\ dash.expected = "s3cret"
    /\ dash.response = FetchFailed
    /\ ledger # {}

-----------------------------------------------------------------------------
(* Properties of the faults of the collaborators *)

\* the completion service has answered invocation i with something other than a
\* well-formed report: a transport error, a non-success status or a malformed body
GenerationFailed(i) == answers[i].groq \in {"error", "no_content", "non_string"}

\* C14, as claimed: on a transport error, a non-success status and a malformed
\* response body alike the generator returns the placeholder report that embeds
\* businessUrl, and it never passes an error on to the handler.
GeneratorFallsBackToPlaceholder ==
    \A i \in Invs :
        GenerationFailed(i) =>
            /\ Did(i, "generate_ret")
            /\ local[i].auditContent = Placeholder(local[i].businessUrl)

\* the delivery of invocation i failed: the provider did not confirm the send,
\* or the notifier failed before it called the provider
DeliveryFailed(i) == answers[i].resend \in {"fault", "not_called"}

\* C15: a failed delivery does not escape sendAuditEmail: the handler goes on to
\* the ledger write and answers 200 with success = false, a record it persists
\* has emailDelivered = false; and a persisted emailDelivered is true only when
\* the provider confirmed the send.
DeliveryFaultSurfacedAsValues ==
    \A i \in Invs :
        /\ DeliveryFailed(i) =>
              /\ Did(i, "deliver_ret")
              /\ Did(i, "persist_call")
              /\ Returned(i) =>
                    /\ response[i].statusCode = 200
                    /\ response[i].body.success = FALSE
              /\ \A k \in DOMAIN wrote[i] : wrote[i][k].emailDelivered = FALSE
        /\ \A k \in DOMAIN wrote[i] :
              wrote[i][k].emailDelivered = TRUE => answers[i].resend = "confirmed"

\* the provider refused the send; the invocation answered 200 with success =
\* false and its record with emailDelivered = false is in the ledger
ProviderFaultRecordedWitness ==
    \E i \in Invs :
        /\ answers[i].resend = "fault"
        /\ calls[i].send = 1
        /\ response[i] = [Processed(local[i]) EXCEPT !.body.success = FALSE]
        /\ \E d \in ledger : d.data = wrote[i][1] /\ d.data.emailDelivered = FALSE

-----------------------------------------------------------------------------
(* Properties of the parsing *)

\* C16, as claimed: a POST request whose body is malformed is rejected with a
\* 4xx status before the invocation calls the generation service, the email
\* provider or the store.
MalformedBodyRejected ==
    \A i \in Invs :
        (IsPost(i) /\ event[i].body = BodyJunk) =>
            /\ calls[i] = NoCalls
            /\ wrote[i] = <<>>
            /\ Returned(i)
            /\ response[i].statusCode \in 400 .. 499

AllDigits(s) == s # <<>> /\ \A k \in DOMAIN s : IsDigit(s[k])

RECURSIVE Numeral(_)
\* the integer that the decimal numeral s denotes
Numeral(s) == IF s = <<>> THEN 0 ELSE 10 * Numeral(SubSeq(s, 1, Len(s) - 1)) + DigitVal(s[Len(s)])

\* C17, as claimed: every record an invocation writes has an amount and a
\* currency: the amount is a number, the price / 100 for an integer price and 0
\* for an absent one, the currency is the one supplied or "ZAR" - for every
\* price, a non-numeric one included.  (Read in the claim's favour: only the
\* records of invocations whose report and email went through are looked at.)
RecordHasAmountAndCurrency ==
    \A i \in Invs : \A k \in DOMAIN wrote[i] :
        LET rec == wrote[i][k]  body == event[i].body IN
        (answers[i].groq = "ok" /\ answers[i].resend = "confirmed") =>
        /\ ~rec.amount.nan
        /\ ~Has(body, "price") => rec.amount.cents = 0
        /\ (Has(body, "price") /\ AllDigits(body.price)) =>
               rec.amount.cents = Numeral(body.price)
        /\ rec.currency # ""
        /\ rec.currency = IF Has(body, "currency") /\ body.currency # ""
                          THEN body.currency ELSE "ZAR"

-----------------------------------------------------------------------------
(* Properties of the ledger under concurrent invocations *)

\* the invocations from which the store has taken the document data
BuildersOf(data) == {i \in Invs : \E k \in DOMAIN wrote[i] : wrote[i][k] = data}

\* every record is under its own orderId and is the whole record of one invocation
RecordsWhole ==
    \A d \in ledger :
        /\ d.id = d.data.orderId
        /\ Cardinality(BuildersOf(d.data)) = 1
        /\ \A i \in BuildersOf(d.data) : HoldsValuesOf(d, i)

\* a write that the store refuses changes nothing, and no key is lost
WritesWholeOrNothing ==
    /\ \A i \in Invs :
          (pc[i] = "awaitSet" /\ pc'[i] = "done" /\ wrote'[i] = wrote[i]) => ledger' = ledger
    /\ \A d \in ledger : \E e \in ledger' : e.id = d.id

\* C18: under every interleaving of intake invocations each ledger record is
\* stored under the key equal to its own orderId field and is, as a whole, the
\* record that exactly one invocation built (no mixing of fields of two
\* invocations); a failed write leaves the ledger as it was, and no record is
\* ever removed.
LedgerRecordsAtomic == []RecordsWhole /\ [][WritesWholeOrNothing]_vars

\* two invocations with different values have written under one order id: the
\* ledger holds the whole record of one of them, nothing of the other
OverwrittenWholeWitness ==
    \E i, j \in Invs :
        /\ WriteSucceeded(i) /\ WriteSucceeded(j)
        /\ local[i].orderId = local[j].orderId
        /\ local[i].email # local[j].email
        /\ local[i].emailResult.success /\ ~local[j].emailResult.success
        /\ ledger = {[id |-> local[j].orderId, data |-> wrote[j][1]]}

\* the invocations for order id whose send the provider confirmed
ConfirmedFor(id) == {i \in Invs : local[i].orderId = id /\ answers[i].resend = "confirmed"}

\* C19: a ledger record with emailDelivered = true has an intake invocation for
\* its orderId whose send the provider confirmed.
DeliveredRecordHasConfirmedSend ==
    \A d \in ledger : d.data.emailDelivered = TRUE => ConfirmedFor(d.id) # {}

\* the record of a confirmed send is in the ledger, written over the record of
\* an invocation for the same order whose send the provider refused
DeliveredOverUndeliveredWitness ==
    \E d \in ledger, i, j \in Invs :
        /\ d.data.emailDelivered = TRUE
        /\ WriteSucceeded(i)
        /\ d.data = wrote[i][1]
        /\ i \in ConfirmedFor(d.id)
        /\ local[j].orderId = d.id
        /\ answers[j].resend = "fault"
        /\ WriteSucceeded(j)

-----------------------------------------------------------------------------
(* Properties of the dashboard's access check *)

\* C20, as claimed: an aggregation request that carries no key parameter is
\* answered 401 and causes no store read, whatever the expected secret is, an
\* unset one included.
KeylessRequestRejected ==
    (dash.pc # "idle" /\ dash.key = Undefined) =>
        /\ dash.response = Unauthorized
        /\ dash.reads = 0

====
